---- MODULE Spec2Model ----
(***************************************************************************)
(* Model of airport_messenger_app.py: the template message generator       *)
(* (generate_messages over the RULES table), the EventForm conversion, the *)
(* split-flap animation and the Generate / Clear handlers of AirportApp.   *)
(*                                                                         *)
(* Python strings are TLA+ strings (Len, \o and SubSeq act on characters). *)
(* Python values that may be None, a str or an int are tagged records.     *)
(* An expression that may raise evaluates to [exc, v].                     *)
(***************************************************************************)
EXTENDS Integers, Sequences, FiniteSets, TLC

VARIABLES
    rules,      \* the module global RULES
    event,      \* argument of the latest generate_messages call
    result,     \* what that call returned (or that it raised)
    calls,      \* number of generate_messages calls made so far
    mem,        \* an earlier call, remembered for comparison
    widgets,    \* out_passenger / out_pilot / out_staff: state and content
    timers,     \* pending widget.after callbacks, in creation order
    lastMsgs,   \* msgs of the latest on_generate that reached set_text
    ops,        \* number of button clicks so far
    onlyAnim,   \* every click so far was an animated Generate
    animText,   \* text of the single splitflap_animate run
    shown,      \* contents written by the steps of that run, in order
    fired       \* number of timer callbacks that ran

vars == <<rules, event, result, calls, mem,
          widgets, timers, lastMsgs, ops, onlyAnim, animText, shown, fired>>

genVars == <<rules, event, result, calls, mem>>
appVars == <<widgets, timers, lastMsgs, ops, onlyAnim, animText, shown, fired>>

-----------------------------------------------------------------------------
(* Bounds *)

MaxEta == 2
MaxAudLen == 3
MaxCalls == 3
MaxTextLen == 3
MaxOps == 2
TimeStep == 5

-----------------------------------------------------------------------------
(* Python values *)

Absent == [t |-> "absent"]
PyNone == [t |-> "none"]
PyStr(s) == [t |-> "str", v |-> s]
PyInt(n) == [t |-> "int", v |-> n]
PyList(q) == [t |-> "list", v |-> q]

Ok(x) == [exc |-> FALSE, v |-> x]
Raise == [exc |-> TRUE, v |-> ""]

\* dict.get(key) / dict.get(key, default) on an event
EventGet(ev, key, default) ==
    IF ev[key] = Absent THEN default ELSE ev[key]

\* truth value of a Python object
Truthy(x) ==
    CASE x.t = "str" -> x.v # ""
      [] x.t = "int" -> x.v # 0
      [] x.t = "list" -> x.v # <<>>
      [] OTHER -> FALSE

\* a or b
\* faulty variant: the placeholder replaces a supplied value too
OrAlways(x, d) == d
Or(x, d) == IF Truthy(x) THEN x ELSE d

\* f"{x}"
Format(x) ==
    CASE x.t = "str" -> x.v
      [] x.t = "int" -> ToString(x.v)
      [] OTHER -> "None"

Whitespace == {" ", "\n", "\t"}

RECURSIVE lstrip(_)
lstrip(s) ==
    IF Len(s) > 0 /\ SubSeq(s, 1, 1) \in Whitespace
    THEN lstrip(SubSeq(s, 2, Len(s))) ELSE s

RECURSIVE rstrip(_)
rstrip(s) ==
    IF Len(s) > 0 /\ SubSeq(s, Len(s), Len(s)) \in Whitespace
    THEN rstrip(SubSeq(s, 1, Len(s) - 1)) ELSE s

\* str.strip()
strip(s) == rstrip(lstrip(s))

-----------------------------------------------------------------------------
(* Domain: rules + templates *)

RULES ==
    [event_types |->
       [weather |-> [phrases |->
           [passenger |-> <<"due to adverse weather",
                            "your safety is our priority",
                            "we appreciate your patience">>,
            pilot |-> <<"expect delay due to weather in departure/arrival sector",
                        "monitor ATC advisory">>,
            staff |-> <<"coordinate gate and crew availability",
                        "update displays and inform gate agents">>]],
        runway |-> [phrases |->
           [passenger |-> <<"runway availability constraints">>,
            pilot |-> <<"runway closure/restriction in effect">>,
            staff |-> <<"redirect ground operations">>]],
        technical |-> [phrases |->
           [passenger |-> <<"aircraft requires a technical inspection",
                            "for your safety">>,
            pilot |-> <<"maintenance in progress; stand by for new ETD">>,
            staff |-> <<"dispatch maintenance team and prepare equipment">>]]]]

EVENT_TYPES == <<"weather", "runway", "technical">>

Audiences == {"passenger", "pilot", "staff"}

\* lst[idx] on a Python list: 0-based, negative indices count from the end
GetItem(lst, idx) ==
    IF idx >= 0 /\ idx < Len(lst) THEN Ok(lst[idx + 1])
    ELSE IF idx < 0 /\ idx >= -Len(lst) THEN Ok(lst[Len(lst) + idx + 1])
    ELSE Raise

\* faulty variant: the IndexError is not caught
safeNoCatch(lst, idx, default) == GetItem(lst, idx)
\* faulty variant: the caller's default is dropped
safeEmptyDefault(lst, idx, default) ==
    LET r == GetItem(lst, idx) IN IF r.exc THEN Ok("") ELSE r
safe(lst, idx, default) ==
    LET r == GetItem(lst, idx) IN IF r.exc THEN Ok(default) ELSE r

\* RULES["event_types"].get(etype, {}).get("phrases", {}).get(aud, [])
Phrases(r, etype, aud) ==
    IF etype.t = "str" /\ etype.v \in DOMAIN r.event_types
    THEN LET entry == r.event_types[etype.v] IN
         IF "phrases" \in DOMAIN entry /\ aud \in DOMAIN entry.phrases
         THEN entry.phrases[aud] ELSE <<>>
    ELSE <<>>

\* faulty variant: no TBD for a falsy eta
eta_str_always(eta) == Format(eta) \o " minutes"
eta_str(eta) == IF Truthy(eta) THEN Format(eta) \o " minutes" ELSE "TBD"

\* The three sentence skeletons; p0, p1, p2 are the phrase slots.
passenger_text(p0, p1, p2, flight_no, dest, eta, gate) ==
    strip("Attention passengers: " \o p0 \o " "
          \o "affecting flight " \o flight_no \o " to " \o dest \o ". "
          \o "Estimated delay: " \o eta \o ". "
          \o p1 \o ". " \o p2 \o " "
          \o "Please remain near gate " \o gate
          \o " for updates. Thank you for your understanding.")

\* faulty variant: the flight number is left out
pilot_text_unnamed(p0, p1, flight_no, severity, runway, gate, eta, notes) ==
    strip(p0 \o " for " \o "the flight" \o ". "
          \o "Severity: " \o severity \o ". " \o p1 \o " "
          \o "Runway: " \o runway \o ". Gate: " \o gate
          \o ". ETA change: " \o eta \o ". "
          \o "Notes: " \o notes \o ".")
pilot_text(p0, p1, flight_no, severity, runway, gate, eta, notes) ==
    strip(p0 \o " for " \o flight_no \o ". "
          \o "Severity: " \o severity \o ". " \o p1 \o " "
          \o "Runway: " \o runway \o ". Gate: " \o gate
          \o ". ETA change: " \o eta \o ". "
          \o "Notes: " \o notes \o ".")

staff_text(p0, p1, etype, flight_no, severity, runway, gate, eta) ==
    strip("Action required: event=" \o etype \o ", severity=" \o severity
          \o " for flight " \o flight_no \o ". "
          \o "- Gate: " \o gate \o ", Runway: " \o runway
          \o ", ETA change: " \o eta \o ". "
          \o "- Tasks: " \o p0 \o ", " \o p1 \o ". "
          \o "- Comms: update FIDS, inform AOCC, and document actions in the log.")

\* outputs[a] = m
DictSet(d, a, m) == [k \in (DOMAIN d) \cup {a} |-> IF k = a THEN m ELSE d[k]]

EmptyDict == [k \in {} |-> ""]

DefaultAudiences == PyList(<<"passenger", "pilot", "staff">>)

\* faulty variant: every audience is returned
fill_all(auds, i, outputs, pm, qm, sm) ==
    [a \in Audiences |->
        IF a = "passenger" THEN pm ELSE IF a = "pilot" THEN qm ELSE sm]

\* the for-loop over the audiences (lines 97-105)
RECURSIVE fill_outputs(_, _, _, _, _, _)
fill_outputs(auds, i, outputs, pm, qm, sm) ==
    IF i > Len(auds) THEN outputs
    ELSE LET a == auds[i] IN
         fill_outputs(auds, i + 1,
             IF a = "passenger" THEN DictSet(outputs, a, pm)
             ELSE IF a = "pilot" THEN DictSet(outputs, a, qm)
             ELSE IF a = "staff" THEN DictSet(outputs, a, sm)
             ELSE outputs,
             pm, qm, sm)

\* lines 65-72: the display fields as they are rendered
Fields(ev) ==
    [etype |-> Format(EventGet(ev, "event_type", PyStr(""))),
     flight_no |-> Format(Or(EventGet(ev, "flight_no", PyNone), PyStr("N/A"))),
     dest |-> Format(Or(EventGet(ev, "destination", PyNone), PyStr("your destination"))),
     gate |-> Format(Or(EventGet(ev, "gate", PyNone), PyStr("the assigned gate"))),
     runway |-> Format(Or(EventGet(ev, "runway", PyNone), PyStr("TBD"))),
     severity |-> Format(Or(EventGet(ev, "severity", PyNone), PyStr("medium"))),
     eta |-> eta_str(EventGet(ev, "eta_change_minutes", PyNone)),
     notes |-> Format(Or(EventGet(ev, "notes", PyNone), PyStr("N/A")))]

\* the _safe(...) reads of the three skeletons, by audience and position
Slots(ev, r) ==
    LET etype == EventGet(ev, "event_type", PyStr(""))
        passenger_p == Phrases(r, etype, "passenger")
        pilot_p == Phrases(r, etype, "pilot")
        staff_p == Phrases(r, etype, "staff")
    IN [passenger |-> <<safe(passenger_p, 0, "an operational delay"),
                        safe(passenger_p, 1, ""),
                        safe(passenger_p, 2, "")>>,
        pilot |-> <<safe(pilot_p, 0, "operational delay in effect"),
                    safe(pilot_p, 1, "")>>,
        staff |-> <<safe(staff_p, 0, "coordinate impacted teams"),
                    safe(staff_p, 1, "notify affected parties")>>]

\* the message of audience a from slot texts p and rendered fields f
render(a, p, f) ==
    CASE a = "passenger" ->
            passenger_text(p[1], p[2], p[3], f.flight_no, f.dest, f.eta, f.gate)
      [] a = "pilot" ->
            pilot_text(p[1], p[2], f.flight_no, f.severity, f.runway, f.gate,
                       f.eta, f.notes)
      [] a = "staff" ->
            staff_text(p[1], p[2], f.etype, f.flight_no, f.severity, f.runway,
                       f.gate, f.eta)

SlotTexts(sl) == [a \in Audiences |-> [k \in DOMAIN sl[a] |-> sl[a][k].v]]

generate_messages(ev, r) ==
    LET sl == Slots(ev, r)
        f == Fields(ev)
        auds == EventGet(ev, "audiences", DefaultAudiences)
    IN
    IF \E a \in Audiences : \E k \in DOMAIN sl[a] : sl[a][k].exc
    THEN Raise
    ELSE LET p == SlotTexts(sl) IN
         Ok(fill_outputs(auds.v, 1, EmptyDict,
                         render("passenger", p.passenger, f),
                         render("pilot", p.pilot, f),
                         render("staff", p.staff, f)))

\* faulty variant: the call consumes the first passenger phrase
rules_after_pop(r, ev) ==
    LET etype == EventGet(ev, "event_type", PyStr("")) IN
    IF etype.t = "str" /\ etype.v \in DOMAIN r.event_types
       /\ Len(r.event_types[etype.v].phrases.passenger) > 0
    THEN [r EXCEPT !.event_types[etype.v].phrases.passenger = Tail(@)]
    ELSE r
\* what the call leaves in RULES: it only reads the table
rules_after(r, ev) == r

-----------------------------------------------------------------------------
(* Events handed to generate_messages *)

RECURSIVE SortedLists(_, _)
\* the lists over the sequence names of length at most n, in the order of names
SortedLists(names, n) ==
    IF names = <<>> \/ n = 0 THEN {<<>>}
    ELSE SortedLists(Tail(names), n)
         \cup {<<Head(names)>> \o q : q \in SortedLists(Tail(names), n - 1)}

AudienceNames == <<"passenger", "pilot", "staff", "crew">>

AudienceValues == {Absent} \cup {PyList(q) : q \in SortedLists(AudienceNames, MaxAudLen)}

EtaValues == {Absent} \cup {PyInt(n) : n \in 0..MaxEta}

EventTypeValues ==
    {Absent, PyStr("weather"), PyStr("runway"), PyStr("technical"), PyStr("strike")}

Events ==
    [event_type : EventTypeValues,
     severity : {Absent, PyStr("high")},
     flight_no : {PyNone, PyStr(""), PyStr("AI-320")},
     origin : {PyNone},
     destination : {PyNone, PyStr("BOM")},
     eta_change_minutes : EtaValues,
     gate : {PyNone, PyStr("A7")},
     runway : {PyNone, PyStr("09R")},
     language : {PyStr("en")},
     audiences : AudienceValues,
     notes : {PyNone, PyStr("Thunderstorm cells")}]

NoEvent == [t |-> "noevent"]
NoResult == [exc |-> FALSE, v |-> EmptyDict]
NoMem == [event |-> NoEvent, result |-> NoResult, at |-> 0]

InitGenVars ==
    /\ rules = RULES
    /\ event = NoEvent
    /\ result = NoResult
    /\ calls = 0
    /\ mem = NoMem

InitAppVars ==
    /\ widgets = [a \in Audiences |-> [state |-> "disabled", content |-> ""]]
    /\ timers = <<>>
    /\ lastMsgs = EmptyDict
    /\ ops = 0
    /\ onlyAnim = TRUE
    /\ animText = ""
    /\ shown = <<>>
    /\ fired = 0

\* generate_messages(e), the first call of a process
Call(e) ==
    /\ event' = e
    /\ result' = generate_messages(e, rules)
    /\ rules' = rules_after(rules, e)
    /\ calls' = calls + 1
    /\ UNCHANGED <<mem>>
    /\ UNCHANGED appVars

FirstCall ==
    /\ calls = 0
    /\ \E e \in Events : Call(e)

Init == InitGenVars /\ InitAppVars

Next == FirstCall

Spec == Init /\ [][Next]_vars

-----------------------------------------------------------------------------
(* A process that calls generate_messages repeatedly *)

CallEvents ==
    {e \in Events :
        /\ e.severity = PyStr("high") /\ e.destination = PyStr("BOM")
        /\ e.gate = PyStr("A7") /\ e.runway = PyNone /\ e.notes = PyNone
        /\ e.eta_change_minutes \in {Absent, PyInt(1)}
        /\ e.flight_no \in {PyNone, PyStr("AI-320")}
        /\ e.audiences \in {Absent, PyList(<<"pilot">>), PyList(<<"passenger", "staff">>)}}

\* one more call; the observer may remember it
NextCall(e, remember) ==
    /\ calls < MaxCalls
    /\ event' = e
    /\ result' = generate_messages(e, rules)
    /\ rules' = rules_after(rules, e)
    /\ calls' = calls + 1
    /\ mem' = IF remember
              THEN [event |-> e, result |-> result', at |-> calls']
              ELSE mem
    /\ UNCHANGED appVars

Repeat == \E e \in CallEvents : \E remember \in BOOLEAN : NextCall(e, remember)

SpecCalls == Init /\ [][Repeat]_vars

-----------------------------------------------------------------------------
(* UI helpers: the text widgets and their timers *)

\* A tk.Text ignores insert and delete while its state is "disabled".
WidgetDelete(wd) == IF wd.state = "normal" THEN [wd EXCEPT !.content = ""] ELSE wd
WidgetInsert(wd, x) ==
    IF wd.state = "normal" THEN [wd EXCEPT !.content = @ \o x] ELSE wd
WidgetConfigure(wd, st) == [wd EXCEPT !.state = st]

\* text[:i]
Prefix(text, i) == SubSeq(text, 1, i)

\* the pause before the next step: longer after a whitespace character
Pause(text, i, delay_ms) ==
    LET ch == IF i > 0 THEN SubSeq(text, i, i) ELSE "" IN
    delay_ms * (IF ch \in Whitespace THEN 3 ELSE 1)

\* faulty variant: the run stops one step early
step_early(ui, w, text, i, delay_ms) ==
    IF i >= Len(text)
    THEN [ui EXCEPT !.widgets[w] = WidgetConfigure(@, "disabled")]
    ELSE [widgets |-> [ui.widgets EXCEPT
                         ![w] = WidgetInsert(WidgetDelete(@), Prefix(text, i))],
          timers |-> Append(ui.timers,
                            [w |-> w, text |-> text, i |-> i + 1,
                             delay_ms |-> delay_ms,
                             rem |-> Pause(text, i, delay_ms)])]
\* step(i) of splitflap_animate on widget w; ui is [widgets, timers]
step(ui, w, text, i, delay_ms) ==
    IF i > Len(text)
    THEN [ui EXCEPT !.widgets[w] = WidgetConfigure(@, "disabled")]
    ELSE [widgets |-> [ui.widgets EXCEPT
                         ![w] = WidgetInsert(WidgetDelete(@), Prefix(text, i))],
          timers |-> Append(ui.timers,
                            [w |-> w, text |-> text, i |-> i + 1,
                             delay_ms |-> delay_ms,
                             rem |-> Pause(text, i, delay_ms)])]

splitflap_animate(ui, w, text, delay_ms) ==
    step([ui EXCEPT !.widgets[w] = WidgetDelete(WidgetConfigure(@, "normal"))],
         w, text, 0, delay_ms)

\* the pending timer that is due first; equal due times run in creation order
FirstDue(ts) ==
    CHOOSE j \in 1..Len(ts) :
        \A k \in 1..Len(ts) :
            ts[j].rem < ts[k].rem \/ (ts[j].rem = ts[k].rem /\ j <= k)

Without(ts, j) == SubSeq(ts, 1, j - 1) \o SubSeq(ts, j + 1, Len(ts))

Later(ts, d) ==
    [k \in 1..Len(ts) |-> [ts[k] EXCEPT !.rem = IF @ > d THEN @ - d ELSE 0]]

\* the event loop runs the timer callback that is due first
RunTimer(ui) ==
    LET j == FirstDue(ui.timers)
        t == ui.timers[j]
    IN step([ui EXCEPT !.timers = Later(Without(ui.timers, j), t.rem)],
            t.w, t.text, t.i, t.delay_ms)

UI == [widgets |-> widgets, timers |-> timers]

-----------------------------------------------------------------------------
(* One splitflap_animate run on one widget *)

Chars == {"a", "b", " "}

RECURSIVE Texts(_)
Texts(n) == IF n = 0 THEN {""} ELSE Texts(n - 1) \cup {x \o c : x \in Texts(n - 1), c \in Chars}

InitAnim ==
    /\ InitGenVars
    /\ widgets \in [Audiences -> [state : {"disabled"}, content : {"", "old"}]]
    /\ timers = <<>>
    /\ lastMsgs = EmptyDict
    /\ ops = 0
    /\ onlyAnim = TRUE
    /\ animText \in Texts(MaxTextLen)
    /\ shown = <<>>
    /\ fired = 0

AnimStart ==
    /\ ops = 0
    /\ \E delay_ms \in {10, 25} :
         LET ui == splitflap_animate(UI, "passenger", animText, delay_ms) IN
         /\ widgets' = ui.widgets
         /\ timers' = ui.timers
         /\ shown' = Append(shown, ui.widgets["passenger"].content)
    /\ ops' = 1
    /\ UNCHANGED <<lastMsgs, onlyAnim, animText, fired>>
    /\ UNCHANGED genVars

AnimTimer ==
    /\ timers # <<>>
    /\ LET ui == RunTimer(UI) IN
       /\ widgets' = ui.widgets
       /\ timers' = ui.timers
       /\ shown' = IF Len(ui.timers) > 0
                   THEN Append(shown, ui.widgets["passenger"].content)
                   ELSE shown
    /\ fired' = fired + 1
    /\ UNCHANGED <<lastMsgs, ops, onlyAnim, animText>>
    /\ UNCHANGED genVars

NextAnim == AnimStart \/ AnimTimer

SpecAnim == InitAnim /\ [][NextAnim]_vars

-----------------------------------------------------------------------------
(* The form and the Generate / Clear buttons *)

DigitValue ==
    [c \in {"0", "1", "2", "3", "4", "5", "6", "7", "8", "9"} |->
        CASE c = "0" -> 0 [] c = "1" -> 1 [] c = "2" -> 2 [] c = "3" -> 3
          [] c = "4" -> 4 [] c = "5" -> 5 [] c = "6" -> 6 [] c = "7" -> 7
          [] c = "8" -> 8 [] c = "9" -> 9]

RECURSIVE Digits(_, _)
\* the value of a string of decimal digits after the value acc, or a raise
Digits(x, acc) ==
    IF x = "" THEN Ok(acc)
    ELSE IF SubSeq(x, 1, 1) \in DOMAIN DigitValue
         THEN Digits(SubSeq(x, 2, Len(x)), 10 * acc + DigitValue[SubSeq(x, 1, 1)])
         ELSE Raise

\* int(x) of a str: surrounding whitespace and one sign are accepted
int(x) ==
    LET y == strip(x)
        signed == Len(y) > 0 /\ SubSeq(y, 1, 1) \in {"+", "-"}
        body == IF signed THEN SubSeq(y, 2, Len(y)) ELSE y
        r == Digits(body, 0)
    IN IF body = "" \/ r.exc THEN Raise
       ELSE IF signed /\ SubSeq(y, 1, 1) = "-" THEN Ok(0 - r.v) ELSE r

\* x or None, for a str x
OrNone(x) == IF x # "" THEN PyStr(x) ELSE PyNone

\* AirportApp.form_data: the EventForm read from the entries, or a raise
form_data(form) ==
    LET n == IF form.eta_change # "" THEN int(form.eta_change) ELSE Ok(0) IN
    IF n.exc THEN Raise
    ELSE Ok([event_type |-> form.event_type,
             severity |-> form.severity,
             flight_no |-> form.flight_no,
             origin |-> form.origin,
             destination |-> form.destination,
             eta_change_minutes |-> n.v,
             gate |-> form.gate,
             runway |-> form.runway,
             notes |-> form.notes,
             audience_passenger |-> form.aud_passenger,
             audience_pilot |-> form.aud_pilot,
             audience_staff |-> form.aud_staff])

\* EventForm.to_event
to_event(ef) ==
    LET audiences == (IF ef.audience_passenger THEN <<"passenger">> ELSE <<>>)
                     \o (IF ef.audience_pilot THEN <<"pilot">> ELSE <<>>)
                     \o (IF ef.audience_staff THEN <<"staff">> ELSE <<>>)
    IN [event_type |-> PyStr(ef.event_type),
        severity |-> PyStr(ef.severity),
        flight_no |-> OrNone(ef.flight_no),
        origin |-> OrNone(ef.origin),
        destination |-> OrNone(ef.destination),
        eta_change_minutes |-> PyInt(ef.eta_change_minutes),
        gate |-> OrNone(ef.gate),
        runway |-> OrNone(ef.runway),
        language |-> PyStr("en"),
        audiences |-> Or(PyList(audiences), DefaultAudiences),
        notes |-> OrNone(ef.notes)]

\* msgs.get(a, "")
MsgGet(msgs, a) == IF a \in DOMAIN msgs THEN msgs[a] ELSE ""

\* set_text of on_generate
set_text(ui, w, text, animated, instant) ==
    IF animated
    THEN splitflap_animate(ui, w, text, IF instant THEN 10 ELSE 25)
    ELSE [ui EXCEPT !.widgets[w] =
            WidgetConfigure(
                WidgetInsert(WidgetDelete(WidgetConfigure(@, "normal")), text),
                "disabled")]

\* what the form holds when Generate is clicked
Forms ==
    [event_type : {"runway", "technical"},
     severity : {"medium"},
     flight_no : {"AI-320"},
     origin : {"DEL"},
     destination : {"BOM"},
     eta_change : {"45", "soon"},
     gate : {"A7"},
     runway : {""},
     notes : {""},
     aud_passenger : {FALSE},
     aud_pilot : {TRUE},
     aud_staff : {FALSE},
     instant_mode : {TRUE},
     animated_mode : BOOLEAN]

InitApp ==
    /\ InitGenVars
    /\ InitAppVars

\* AirportApp.on_generate with the form contents form
on_generate(form) ==
    /\ ops < MaxOps
    /\ ops' = ops + 1
    /\ LET fd == form_data(form) IN
       IF fd.exc
       THEN \* the ValueError leaves the handler before anything is displayed
            /\ onlyAnim' = onlyAnim
            /\ UNCHANGED <<widgets, timers, lastMsgs, event, result, calls>>
       ELSE LET ev == to_event(fd.v)
                msgs == generate_messages(ev, rules)
            IN /\ event' = ev
               /\ result' = msgs
               /\ calls' = calls + 1
               /\ IF msgs.exc
                  THEN /\ onlyAnim' = onlyAnim
                       /\ UNCHANGED <<widgets, timers, lastMsgs>>
                  ELSE LET u1 == set_text(UI, "passenger", MsgGet(msgs.v, "passenger"),
                                          form.animated_mode, form.instant_mode)
                           u2 == set_text(u1, "pilot", MsgGet(msgs.v, "pilot"),
                                          form.animated_mode, form.instant_mode)
                           u3 == set_text(u2, "staff", MsgGet(msgs.v, "staff"),
                                          form.animated_mode, form.instant_mode)
                       IN /\ widgets' = u3.widgets
                          /\ timers' = u3.timers
                          /\ lastMsgs' = msgs.v
                          /\ onlyAnim' = (onlyAnim /\ form.animated_mode)
    /\ rules' = rules
    /\ UNCHANGED <<mem, animText, shown, fired>>

Generate == \E form \in Forms : on_generate(form)

\* AirportApp.on_clear
on_clear ==
    /\ ops < MaxOps
    /\ ops' = ops + 1
    /\ widgets' = [a \in Audiences |->
                     WidgetConfigure(WidgetDelete(WidgetConfigure(widgets[a], "normal")),
                                     "disabled")]
    /\ onlyAnim' = FALSE
    /\ UNCHANGED <<timers, lastMsgs, animText, shown, fired>>
    /\ UNCHANGED genVars

\* a timer callback runs
Timer ==
    /\ timers # <<>>
    /\ LET ui == RunTimer(UI) IN
       /\ widgets' = ui.widgets
       /\ timers' = ui.timers
    /\ UNCHANGED <<lastMsgs, ops, onlyAnim, animText, shown, fired>>
    /\ UNCHANGED genVars

\* TimeStep ms pass while no timer is due
Elapse ==
    /\ timers # <<>>
    /\ ops < MaxOps
    /\ \A k \in 1..Len(timers) : timers[k].rem >= TimeStep
    /\ timers' = Later(timers, TimeStep)
    /\ UNCHANGED <<widgets, lastMsgs, ops, onlyAnim, animText, shown, fired>>
    /\ UNCHANGED genVars

NextApp == Generate \/ on_clear \/ Timer \/ Elapse

SpecApp == InitApp /\ [][NextApp]_vars

-----------------------------------------------------------------------------
(* Properties of generate_messages, checked under Spec *)

Called == calls > 0

\* the audience names an event asks for
RequestedList(ev) == EventGet(ev, "audiences", DefaultAudiences).v
Requested(ev) == {RequestedList(ev)[i] : i \in 1..Len(RequestedList(ev))}

Supplied(x) == x.t = "str" /\ x.v # ""

EventType(ev) == EventGet(ev, "event_type", PyStr(""))
KnownType(ev) == EventType(ev).t = "str" /\ EventType(ev).v \in DOMAIN RULES.event_types

\* s occurs in m
Contains(m, s) ==
    \E i \in 1..(Len(m) - Len(s) + 1) : SubSeq(m, i, i + Len(s) - 1) = s

\* C1: for a non-empty audiences list drawn from passenger / pilot / staff,
\* the returned mapping has exactly the listed audiences as its keys.
C1_ExactlyRequestedKeys ==
    (Called /\ event.audiences # Absent /\ event.audiences.v # <<>>
       /\ Requested(event) \subseteq Audiences)
    => (~result.exc /\ DOMAIN result.v = Requested(event))

C1_Witness ==
    /\ Called /\ event.audiences = PyList(<<"passenger", "staff">>)
    /\ DOMAIN result.v = {"passenger", "staff"}

\* C2: when the audiences list is empty, the returned mapping has the three
\* keys passenger, pilot and staff.
C2_EmptyDefaultsToAll ==
    (Called /\ event.audiences = PyList(<<>>))
    => (~result.exc /\ DOMAIN result.v = Audiences)

\* read positions of each skeleton, 0-based as in the source
SlotPositions(a) == IF a = "passenger" THEN 0..2 ELSE 0..1

OutOfRange(ev, a, k) == k >= Len(Phrases(RULES, EventType(ev), a))

\* the message of audience a with the text x at phrase position k
WithSlot(ev, a, k, x) ==
    render(a, [SlotTexts(Slots(ev, RULES))[a] EXCEPT ![k + 1] = x], Fields(ev))

SkeletonDefault ==
    [passenger |-> <<"an operational delay", "", "">>,
     pilot |-> <<"operational delay in effect", "">>,
     staff |-> <<"coordinate impacted teams", "notify affected parties">>]

C4_UnknownTypeDoesNotRaise ==
    (Called /\ ~KnownType(event))
    => /\ ~result.exc
       /\ \A a \in Audiences : Phrases(rules, EventType(event), a) = <<>>
       /\ \A a \in Requested(event) \cap Audiences :
             a \in DOMAIN result.v /\ result.v[a] # ""

C4_Witness ==
    /\ Called /\ event.event_type = PyStr("strike")
    /\ DOMAIN result.v = Audiences
    /\ Contains(result.v["staff"], "event=strike")

\* the ETA portion of each skeleton, with the label that introduces it
EtaPortion(a, x) ==
    IF a = "passenger" THEN "Estimated delay: " \o x \o ". "
    ELSE "ETA change: " \o x \o ". "

\* C5: an absent or zero eta_change_minutes renders as "TBD" and a positive
\* n renders as "n minutes", in every message produced.
C5_EtaRendering ==
    Called =>
      \A a \in DOMAIN result.v :
        LET eta == event.eta_change_minutes
            x == IF eta = Absent \/ eta = PyInt(0) THEN "TBD"
                 ELSE ToString(eta.v) \o " minutes"
        IN /\ result.v[a] = render(a, SlotTexts(Slots(event, RULES))[a],
                                    [Fields(event) EXCEPT !.eta = x])
           /\ Contains(result.v[a], EtaPortion(a, x))

C5_Witness ==
    /\ Called /\ event.eta_change_minutes = PyInt(2)
    /\ "pilot" \in DOMAIN result.v
    /\ Contains(result.v["pilot"], "ETA change: 2 minutes. ")

Shown(x, placeholder) == IF Supplied(x) THEN x.v ELSE placeholder

\* C6: each display field that is absent or empty renders as its fixed
\* placeholder, and a field supplied non-empty renders as supplied.
C6_Placeholders ==
    Called =>
      \A a \in DOMAIN result.v :
        result.v[a] =
          render(a, SlotTexts(Slots(event, RULES))[a],
                 [Fields(event) EXCEPT
                    !.flight_no = Shown(event.flight_no, "N/A"),
                    !.dest = Shown(event.destination, "your destination"),
                    !.gate = Shown(event.gate, "the assigned gate"),
                    !.runway = Shown(event.runway, "TBD"),
                    !.notes = Shown(event.notes, "N/A"),
                    !.severity = Shown(event.severity, "medium")])

C6_Witness ==
    /\ Called /\ event.flight_no = PyStr("") /\ event.gate = PyStr("A7")
    /\ event.severity = Absent
    /\ "pilot" \in DOMAIN result.v
    /\ Contains(result.v["pilot"], " for N/A. Severity: medium. ")
    /\ Contains(result.v["pilot"], "Gate: A7.")

\* C7: for an event type of the rule table and a supplied flight number,
\* every message returned is non-empty and contains the flight number.
C7_FlightNumberShown ==
    (Called /\ KnownType(event) /\ Supplied(event.flight_no))
    => /\ ~result.exc
       /\ \A a \in Requested(event) \cap Audiences :
            /\ a \in DOMAIN result.v
            /\ result.v[a] # ""
            /\ Contains(result.v[a], event.flight_no.v)

C7_Witness ==
    /\ Called /\ event.event_type = PyStr("technical")
    /\ event.flight_no = PyStr("AI-320")
    /\ DOMAIN result.v = Audiences
    /\ \A a \in Audiences : Contains(result.v[a], "AI-320")

-----------------------------------------------------------------------------
(* Properties of repeated calls, checked under SpecCalls *)

-----------------------------------------------------------------------------
(* Properties of one animation run, checked under SpecAnim *)

\* C9: one splitflap_animate run shows the prefixes text[:0], text[:1], ...,
\* text[:len(text)] in that order; the step after the last prefix disables
\* the widget and schedules no timer, leaving the widget showing the text.
C9_RevealsPrefixesThenStops ==
    /\ Len(shown) <= Len(animText) + 1
    /\ \A k \in 1..Len(shown) : shown[k] = Prefix(animText, k - 1)
    /\ fired <= Len(animText) + 1
    /\ (ops = 1 /\ timers # <<>>)
       => /\ Len(timers) = 1
          /\ widgets["passenger"].state = "normal"
          /\ widgets["passenger"].content = shown[Len(shown)]
    /\ (ops = 1 /\ timers = <<>>)
       => /\ Len(shown) = Len(animText) + 1
          /\ fired = Len(animText) + 1
          /\ widgets["passenger"] = [state |-> "disabled", content |-> animText]

C9_Witness ==
    /\ ops = 1 /\ timers = <<>> /\ animText = "a b"
    /\ shown = <<"", "a", "a ", "a b">>
    /\ widgets["passenger"] = [state |-> "disabled", content |-> "a b"]

-----------------------------------------------------------------------------
(* Properties of the output panels, checked under SpecApp *)

\* C10: after animated Generate clicks only, once no timer is pending each
\* output panel shows the complete message of the latest Generate for its
\* audience.
C10_PanelsShowLatestMessage ==
    (ops > 0 /\ onlyAnim /\ calls > 0 /\ timers = <<>>)
    => \A a \in Audiences : widgets[a].content = MsgGet(lastMsgs, a)

====
